---- MODULE Spec2Model ----
(***************************************************************************)
(* The hybrid persistence variant of the study-portal backend              *)
(* (src/unnamed/part_001): a JSON fallback file (the durable local store), *)
(* a MongoDB collection (the primary store), the isMongoConnected flag,    *)
(* connectMongoDB / syncToMongoDB (reconciliation) and the data-access     *)
(* functions getPDFs, getCounts, addPDF and deletePDF with their routes.   *)
(*                                                                         *)
(* Node runs every handler to its next `await` without interleaving, so    *)
(* one action is one synchronous stretch of a handler: from its start, or  *)
(* from the completion of the awaited MongoDB call, to the next await or   *)
(* to the return.  An awaited MongoDB call takes effect, or fails, at the  *)
(* step that completes it.  It succeeds only while the connection is up    *)
(* (readyState = 1; bufferCommands is false, so nothing is queued).        *)
(* A handler whose only await is a read that follows nothing but the test  *)
(* of the flag (getPDFs, and getCounts up to its first count) is one       *)
(* action: what it returns depends on the state at the completion alone.   *)
(* The model keeps one addPDF, deletePDF or getCounts call awaiting        *)
(* MongoDB at a time, beside MaxConn connectMongoDB calls.                 *)
(*                                                                         *)
(* Identifiers are Date.now() readings; the model keeps them as the        *)
(* numbers whose decimal strings the code uses.                            *)
(***************************************************************************)
EXTENDS Integers, Sequences, FiniteSets, TLC

\* ---------------------------------------------------------------- bounds
\* Number of upload requests that reach addPDF in one behaviour.
MaxAdds == 2
\* Last millisecond reading of the clock (Date.now()) in one behaviour.
MaxClock == 2
\* Number of connectMongoDB calls that may be in flight at once.
MaxConn == 2

\* --------------------------------------------------------------- constants
\* The two document types the portal uses (getCounts, lines 168-169).
Types == {"material", "imp-material"}
\* getPDFs' default argument: no type filter (line 142).
NoType == "null"
ConnSlots == 1..MaxConn
Files == 1..MaxAdds
Clock == 1..MaxClock
\* No response has been produced by the last step.
NoResp == [op |-> "none"]

VARIABLES
    now,              \* the last reading of Date.now(), in milliseconds
    uriSet,           \* process.env.MONGODB_URI is defined
    readyState,       \* mongoose.connection.readyState (1 = connected, 0 = not)
    isMongoConnected, \* the reachability flag
    local,            \* fallback-database.json: the pdfs array
    primary,          \* the PDF collection in MongoDB (unique _id)
    uploads,          \* payload files under public/uploads
    disk,             \* the condition of fallback-database.json on disk
    nextFile,         \* the next generated upload filename
    conn,             \* in-flight connectMongoDB calls
    req,              \* the data-access call that is awaiting MongoDB
    resp,             \* what the last step returned to its caller
    issued,           \* history: file and id of the documents addPDF has returned
    deleted,          \* history: files of the documents a completed deletePDF named
    justSynced        \* history: a reconciliation has pruned the fallback file and
                      \* no addPDF has run since

vars == <<now, uriSet, readyState, isMongoConnected, local, primary, uploads,
          disk, nextFile, conn, req, resp, issued, deleted, justSynced>>

stores == <<local, primary, uploads>>
hist == <<issued, deleted>>

\* ------------------------------------------------------- the fallback file
\* The conditions the file can be in: sound; sound but not writable
\* (fs.writeFileSync throws); not readable as JSON (fs.readFileSync or
\* JSON.parse throws); JSON that holds no pdfs array.  Spec keeps the file
\* sound; FaultSpec lets it fail.
DiskStates == {"ok", "readonly", "unparseable", "misshapen"}

\* readFallbackDB() (lines 35-43) returned an object whose pdfs is undefined:
\* JSON.parse succeeded, so the catch did not replace it, and every use of
\* fallbackData.pdfs throws a TypeError.
PdfsMissing == disk = "misshapen"

\* The pdfs array readFallbackDB() gives (lines 35-43): the file's, or the
\* empty one of the catch (line 41) when the file cannot be read or parsed.
readFallbackDB == IF disk = "unparseable" THEN <<>> ELSE local

\* The pdfs array in the file after writeFallbackDB(data) (lines 46-55): the
\* new one, or the old one when the write throws and false is returned.
writeFallbackDB(data) == IF disk = "readonly" THEN local ELSE data

\* The condition of the file after writeFallbackDB: a write that goes
\* through replaces whatever was there.
DiskAfterWrite == IF disk = "readonly" THEN disk ELSE "ok"

\* ------------------------------------------------------------ pure helpers
\* Array.prototype.filter by type (lines 158-160); no filter when type is null.
FilterType(pdfs, type) ==
    SelectSeq(pdfs, LAMBDA pdf : type = NoType \/ pdf.type = type)

RECURSIVE InsertByDate(_, _)
\* Insert pdf into a list sorted by dateAdded descending, after its equals.
InsertByDate(sorted, pdf) ==
    IF sorted = <<>> THEN <<pdf>>
    ELSE IF Head(sorted).dateAdded >= pdf.dateAdded
         THEN <<Head(sorted)>> \o InsertByDate(Tail(sorted), pdf)
         ELSE <<pdf>> \o sorted

RECURSIVE SortByDateDesc(_)
\* pdfs.sort((a, b) => new Date(b.dateAdded) - new Date(a.dateAdded)), a stable sort.
SortByDateDesc(pdfs) ==
    IF pdfs = <<>> THEN <<>>
    ELSE InsertByDate(SortByDateDesc(SubSeq(pdfs, 1, Len(pdfs) - 1)), pdfs[Len(pdfs)])

\* The fallback branch of getPDFs (lines 156-161).
FallbackPDFs(type) == SortByDateDesc(FilterType(readFallbackDB, type))

\* Mutant: the query never gets its type (line 146 dropped).
FindSorted_NoFilter(coll, type) ==
    LET n == Cardinality(coll)
    IN  {s \in [1..n -> coll] :
            /\ \A i, j \in 1..n : i < j => s[i] # s[j] /\ s[i].dateAdded >= s[j].dateAdded}

\* PDF.find(query).sort({dateAdded: -1}) (lines 145-147): the matching
\* documents, newest first; MongoDB leaves the order of equal dates open.
FindSorted(coll, type) ==
    LET match == {d \in coll : type = NoType \/ d.type = type}
        n == Cardinality(match)
    IN  {s \in [1..n -> match] :
            /\ \A i, j \in 1..n : i < j => s[i] # s[j] /\ s[i].dateAdded >= s[j].dateAdded}

\* PDF.countDocuments({type}).
CountDocuments(coll, type) == Cardinality({d \in coll : d.type = type})

\* The fallback branch of getCounts (lines 178-181).
FallbackCounts ==
    LET materialCount == Len(FilterType(readFallbackDB, "material"))
        impMaterialCount == Len(FilterType(readFallbackDB, "imp-material"))
    IN  [materialCount |-> materialCount, impMaterialCount |-> impMaterialCount,
         totalCount |-> materialCount + impMaterialCount]

\* Mutant: _id is left to MongoDB, which mints one of its own.
ToMongo_MintedId(pdf) ==
    [_id |-> MaxClock + pdf.file, type |-> pdf.type, file |-> pdf.file,
     dateAdded |-> pdf.dateAdded]

\* The document a local record becomes in MongoDB: {...pdf, _id: pdf.id}
\* (lines 63-66, 201-204); the schema drops the id field.
ToMongo(pdf) ==
    [_id |-> pdf.id, type |-> pdf.type, file |-> pdf.file, dateAdded |-> pdf.dateAdded]

RECURSIVE InsertManyOrdered(_, _)
\* PDF.insertMany(docs), ordered: documents go in one by one and the first
\* duplicate _id stops the batch, leaving the earlier ones inserted.
InsertManyOrdered(coll, docs) ==
    IF docs = <<>> THEN [coll |-> coll, ok |-> TRUE]
    ELSE IF \E d \in coll : d._id = Head(docs)._id
         THEN [coll |-> coll, ok |-> FALSE]
         ELSE InsertManyOrdered(coll \cup {Head(docs)}, Tail(docs))

\* fallbackData.pdfs.map(pdf => ({...pdf, _id: pdf.id})) (lines 63-66).
RECURSIVE MapToMongo(_)
MapToMongo(pdfs) ==
    IF pdfs = <<>> THEN <<>> ELSE <<ToMongo(Head(pdfs))>> \o MapToMongo(Tail(pdfs))

\* findIndex(pdf => pdf.id === pdfId) (line 219); 0 stands for -1.
FindIndex(pdfs, pdfId) ==
    IF \E i \in 1..Len(pdfs) : pdfs[i].id = pdfId
    THEN CHOOSE i \in 1..Len(pdfs) :
            /\ pdfs[i].id = pdfId
            /\ \A j \in 1..(i - 1) : pdfs[j].id # pdfId
    ELSE 0

\* pdfs.splice(i, 1) (line 230).
Splice(pdfs, i) == SubSeq(pdfs, 1, i - 1) \o SubSeq(pdfs, i + 1, Len(pdfs))

Idle == [pc |-> "idle"]

\* ------------------------------------------------------------------- Init
\* After the module has loaded: the fallback file is initialised empty
\* (lines 22-32, 434), the flag is false (line 80) and connectMongoDB() has
\* been called (line 137): it returned false at once without a URI and is
\* awaiting mongoose.connect otherwise.
Init ==
    /\ now = 0
    /\ uriSet \in BOOLEAN
    /\ readyState = 0
    /\ isMongoConnected = FALSE
    /\ local = <<>>
    /\ primary = {}
    /\ uploads = {}
    /\ disk = "ok"
    /\ nextFile = 1
    /\ conn = [s \in ConnSlots |-> IF s = 1 /\ uriSet THEN [pc |-> "connect"] ELSE Idle]
    /\ req = Idle
    /\ resp = NoResp
    /\ issued = {}
    /\ deleted = {}
    /\ justSynced = FALSE


\* --------------------------------------------------- environment actions
\* The connection to MongoDB drops.
ConnectionLoss ==
    /\ readyState = 1
    /\ readyState' = 0
    /\ resp' = NoResp
    /\ UNCHANGED <<now, uriSet, disk, isMongoConnected, stores, nextFile, conn,
                   req, hist, justSynced>>

\* ------------------------------------------- connection and reconciliation
HasFreeSlot == \E s \in ConnSlots : conn[s].pc = "idle"

FreeSlot ==
    CHOOSE s \in ConnSlots :
        /\ conn[s].pc = "idle"
        /\ \A t \in ConnSlots : conn[t].pc = "idle" => s <= t

\* The value connectMongoDB returns (lines 108, 128, 132), and what its log
\* tells of the reconciliation: not run, done (line 68) or failed (line 73).
ConnectResult(result, synced) ==
    [op |-> "connectMongoDB", result |-> result, synced |-> synced]

\* What the setInterval callback logs before it calls connectMongoDB
\* (line 439).
TickLog == [op |-> "reconnectTick"]

\* Mutant: the callback calls connectMongoDB only while the flag is true.
ReconnectTick_WhileConnected ==
    /\ isMongoConnected /\ uriSet
    /\ HasFreeSlot
    /\ conn' = [conn EXCEPT ![FreeSlot] = [pc |-> "connect"]]
    /\ resp' = TickLog
    /\ UNCHANGED <<now, uriSet, disk, readyState, isMongoConnected, stores, nextFile,
                   req, hist, justSynced>>

\* Mutant: the callback calls connectMongoDB on every tick.
ReconnectTick_EveryTick ==
    /\ uriSet
    /\ HasFreeSlot
    /\ conn' = [conn EXCEPT ![FreeSlot] = [pc |-> "connect"]]
    /\ resp' = TickLog
    /\ UNCHANGED <<now, uriSet, disk, readyState, isMongoConnected, stores, nextFile,
                   req, hist, justSynced>>

\* The setInterval callback (lines 437-442): it calls connectMongoDB only
\* while the flag is false and a URI is configured; the call runs up to
\* `await mongoose.connect` (lines 103-117).
ReconnectTick ==
    /\ ~isMongoConnected /\ uriSet
    /\ HasFreeSlot
    /\ conn' = [conn EXCEPT ![FreeSlot] = [pc |-> "connect"]]
    /\ resp' = TickLog
    /\ UNCHANGED <<now, uriSet, disk, readyState, isMongoConnected, stores, nextFile,
                   req, hist, justSynced>>

\* POST /api/database/reconnect (lines 417-424): connectMongoDB whatever the
\* flag says; without a URI it returns false at once (lines 106-109).
ManualReconnect ==
    /\ HasFreeSlot
    /\ IF uriSet
       THEN /\ conn' = [conn EXCEPT ![FreeSlot] = [pc |-> "connect"]]
            /\ resp' = NoResp
       ELSE /\ conn' = conn
            /\ resp' = ConnectResult(FALSE, "none")
    /\ UNCHANGED <<now, uriSet, disk, readyState, isMongoConnected, stores, nextFile,
                   req, hist, justSynced>>

\* Mutant: the reconciliation runs whatever the fallback file holds.
ShouldSync_Always(fallbackData) == TRUE

\* The two guards in front of the reconciliation (lines 124 and 59); the
\* connection has just been opened, so readyState is 1 when line 59 runs.
ShouldSync(fallbackData) == Len(fallbackData) > 0

\* mongoose.connect resolved (lines 119-128): the flag goes true, the
\* fallback file is read and, if it holds documents, syncToMongoDB starts
\* and awaits PDF.deleteMany({}) (line 62).
ConnectOk(s) ==
    /\ conn[s].pc = "connect"
    /\ readyState' = 1
    /\ isMongoConnected' = TRUE
    /\ LET fallbackData == local
       IN  IF ShouldSync(fallbackData)
           THEN /\ conn' = [conn EXCEPT ![s] =
                               [pc |-> "deleteMany", fallbackData |-> fallbackData]]
                /\ resp' = NoResp
           ELSE /\ conn' = [conn EXCEPT ![s] = Idle]
                /\ resp' = ConnectResult(TRUE, "none")
    /\ UNCHANGED <<now, uriSet, disk, stores, nextFile, req, hist, justSynced>>

\* Mutant: a rejected connect leaves the flag as it was.
ConnectFail_KeepsFlag(s) ==
    /\ conn[s].pc = "connect"
    /\ readyState = 0
    /\ conn' = [conn EXCEPT ![s] = Idle]
    /\ resp' = ConnectResult(FALSE, "none")
    /\ UNCHANGED <<now, uriSet, disk, readyState, isMongoConnected, stores, nextFile,
                   req, hist, justSynced>>

\* mongoose.connect rejected (lines 129-133).
ConnectFail(s) ==
    /\ conn[s].pc = "connect"
    /\ readyState = 0
    /\ isMongoConnected' = FALSE
    /\ conn' = [conn EXCEPT ![s] = Idle]
    /\ resp' = ConnectResult(FALSE, "none")
    /\ UNCHANGED <<now, uriSet, disk, readyState, stores, nextFile, req, hist, justSynced>>

\* PDF.deleteMany({}) resolved (line 62): the collection is empty, and
\* syncToMongoDB awaits PDF.insertMany (line 67).  removed keeps, for the
\* record, the documents the call took out.
SyncDeleteManyOk(s) ==
    /\ conn[s].pc = "deleteMany"
    /\ readyState = 1
    /\ primary' = {}
    /\ conn' = [conn EXCEPT ![s] = [pc |-> "insertMany",
                                    fallbackData |-> conn[s].fallbackData,
                                    removed |-> primary]]
    /\ resp' = NoResp
    /\ UNCHANGED <<now, uriSet, disk, readyState, isMongoConnected, local, uploads,
                   nextFile, req, hist, justSynced>>

\* Mutant: the fallback file is cleared although the call was rejected.
SyncFailed_Prunes(s) ==
    /\ conn[s].pc \in {"deleteMany", "insertMany"}
    /\ readyState = 0
    /\ conn' = [conn EXCEPT ![s] = Idle]
    /\ resp' = ConnectResult(TRUE, "failed")
    /\ local' = <<>>
    /\ UNCHANGED <<now, uriSet, disk, readyState, isMongoConnected, primary, uploads,
                   nextFile, req, hist, justSynced>>

\* A MongoDB call of syncToMongoDB rejected (lines 72-74): the error is
\* logged and connectMongoDB returns true (line 128).
SyncFailed(s) ==
    /\ conn[s].pc \in {"deleteMany", "insertMany"}
    /\ readyState = 0
    /\ conn' = [conn EXCEPT ![s] = Idle]
    /\ resp' = ConnectResult(TRUE, "failed")
    /\ UNCHANGED <<now, uriSet, disk, readyState, isMongoConnected, stores, nextFile,
                   req, hist, justSynced>>

\* What writeFallbackDB stores after a successful sync (line 71).
ClearedFallback(fallbackData) == <<>>

\* PDF.insertMany answered (lines 67-74): if every document went in, the
\* fallback file is rewritten with no documents; on a duplicate _id the
\* batch stops short and the fallback file is left alone.
SyncInsertMany(s) ==
    /\ conn[s].pc = "insertMany"
    /\ readyState = 1
    /\ LET r == InsertManyOrdered(primary, MapToMongo(conn[s].fallbackData))
       IN  /\ primary' = r.coll
           /\ IF r.ok
              THEN /\ local' = ClearedFallback(conn[s].fallbackData)
                   /\ justSynced' = TRUE
                   /\ resp' = ConnectResult(TRUE, "done")
              ELSE /\ UNCHANGED <<local, justSynced>>
                   /\ resp' = ConnectResult(TRUE, "failed")
    /\ conn' = [conn EXCEPT ![s] = Idle]
    /\ UNCHANGED <<now, uriSet, disk, readyState, isMongoConnected, uploads, nextFile,
                   req, hist>>

\* ------------------------------------------------------------------ addPDF
\* Mutant: the record is pushed but the fallback file is never written.
PushAndWrite_NotWritten(pdfs, newPdf) == pdfs

\* Mutant: the fallback file is written only while MongoDB is down.
PushAndWrite_OnlyOffline(pdfs, newPdf) ==
    IF isMongoConnected THEN pdfs ELSE Append(pdfs, newPdf)

\* fallbackData.pdfs.push(newPdf); writeFallbackDB(fallbackData) (lines 194-195).
PushAndWrite(pdfs, newPdf) == Append(pdfs, newPdf)

\* Mutant: the mirroring save is tried whatever the flag says.
MirrorWanted_Always == TRUE

\* `if (isMongoConnected)` in front of the mirroring save (line 199).
MirrorWanted == isMongoConnected

\* new PDF({_id: newPdf.id, ...pdfData}) (lines 201-204).
MongoPdf(newPdf) == ToMongo(newPdf)

\* The route's success response (lines 356-361).
UploadOk(savedPdf, mirror) ==
    [op |-> "addPDF", status |-> 200, success |-> TRUE, pdf |-> savedPdf,
     mirror |-> mirror]

\* The route's catch (lines 363-371): the stored file is unlinked, 500.
UploadFailed == [op |-> "addPDF", status |-> 500, success |-> FALSE]

\* The log line that follows the fallback write (line 196).
SavedToFallback(newPdf) == [op |-> "writeFallbackDB", pdf |-> newPdf]

\* What the history keeps of a document addPDF returned: its file and the
\* id it was given.
Entry(newPdf) == [file |-> newPdf.file, id |-> newPdf.id]

\* POST /api/admin/pdfs with a file and all required fields (lines 326-361)
\* calling addPDF (lines 185-199): the clock is read (it shows the last
\* reading or a later one), the record is built from it and pushed to the
\* fallback file, and then either the mirroring save is awaited or, with the
\* flag false, the call returns.  When the file holds no pdfs array the push
\* throws (line 194) and the route's catch answers 500.
UploadPDF ==
    \E type \in Types, t \in Clock :
        /\ req.pc = "idle"
        /\ nextFile <= MaxAdds
        /\ t \in {now, now + 1}
        /\ now' = t
        /\ IF PdfsMissing
           THEN /\ resp' = UploadFailed
                /\ UNCHANGED <<disk, local, uploads, nextFile, req, issued, justSynced>>
           ELSE LET newPdf == [id |-> t, type |-> type, file |-> nextFile,
                               dateAdded |-> t]
                IN  /\ uploads' = uploads \cup {nextFile}
                    /\ nextFile' = nextFile + 1
                    /\ local' = writeFallbackDB(PushAndWrite(readFallbackDB, newPdf))
                    /\ disk' = DiskAfterWrite
                    /\ justSynced' = FALSE
                    /\ IF MirrorWanted
                       THEN /\ req' = [pc |-> "save", newPdf |-> newPdf]
                            /\ resp' = SavedToFallback(newPdf)
                            /\ issued' = issued
                       ELSE /\ req' = Idle
                            /\ resp' = UploadOk(newPdf, "none")
                            /\ issued' = issued \cup {Entry(newPdf)}
        /\ UNCHANGED <<uriSet, readyState, isMongoConnected, primary, conn, deleted>>

\* mongoPdf.save() resolved (lines 205-206, 212): the document is in MongoDB.
AddSaveOk ==
    /\ req.pc = "save"
    /\ readyState = 1
    /\ ~\E d \in primary : d._id = req.newPdf.id
    /\ primary' = primary \cup {MongoPdf(req.newPdf)}
    /\ req' = Idle
    /\ resp' = UploadOk(req.newPdf, "saved")
    /\ issued' = issued \cup {Entry(req.newPdf)}
    /\ UNCHANGED <<now, uriSet, disk, readyState, isMongoConnected, local, uploads,
                   nextFile, conn, deleted, justSynced>>

\* Mutant: a rejected save takes the record out of the fallback file again.
AddSaveFail_RollsBack ==
    /\ req.pc = "save"
    /\ readyState = 0 \/ \E d \in primary : d._id = req.newPdf.id
    /\ local' = SelectSeq(local, LAMBDA pdf : pdf.file # req.newPdf.file)
    /\ req' = Idle
    /\ resp' = UploadOk(req.newPdf, "failed")
    /\ issued' = issued \cup {Entry(req.newPdf)}
    /\ UNCHANGED <<now, uriSet, disk, readyState, isMongoConnected, primary, uploads,
                   nextFile, conn, deleted, justSynced>>

\* mongoPdf.save() rejected, the connection being down or the _id taken
\* (lines 207-209, 212): logged, and addPDF returns the record all the same.
AddSaveFail ==
    /\ req.pc = "save"
    /\ readyState = 0 \/ \E d \in primary : d._id = req.newPdf.id
    /\ req' = Idle
    /\ resp' = UploadOk(req.newPdf, "failed")
    /\ issued' = issued \cup {Entry(req.newPdf)}
    /\ UNCHANGED <<now, uriSet, disk, readyState, isMongoConnected, stores, nextFile,
                   conn, deleted, justSynced>>

\* The two 400 answers of the upload route (lines 331, 338-341).
UploadErrors == {"No file uploaded", "Missing required fields"}

\* The 400 answer (lines 331, 338-341).
BadUpload(error) ==
    [op |-> "addPDF", status |-> 400, success |-> FALSE, error |-> error]

\* Mutant: the stored file is not unlinked when a field is missing.
UploadRejected_KeepsFile ==
    \E error \in UploadErrors :
        /\ nextFile <= MaxAdds
        /\ uploads' = IF error = "Missing required fields"
                      THEN uploads \cup {nextFile}
                      ELSE uploads
        /\ resp' = BadUpload(error)
        /\ UNCHANGED <<now, uriSet, disk, readyState, isMongoConnected, local, primary,
                       nextFile, conn, req, hist, justSynced>>

\* POST /api/admin/pdfs without a file (lines 330-332), or with a file, which
\* multer has stored under the next generated name, but without displayName,
\* type or icon (lines 336-342): the stored file is unlinked again; 400.
UploadRejected ==
    \E error \in UploadErrors :
        /\ nextFile <= MaxAdds
        /\ uploads' = IF error = "Missing required fields"
                      THEN (uploads \cup {nextFile}) \ {nextFile}
                      ELSE uploads
        /\ resp' = BadUpload(error)
        /\ UNCHANGED <<now, uriSet, disk, readyState, isMongoConnected, local, primary,
                       nextFile, conn, req, hist, justSynced>>

\* --------------------------------------------------------------- deletePDF
\* The route's response (lines 379-383).
DeleteOk(pdfId) == [op |-> "deletePDF", status |-> 200, success |-> TRUE, id |-> pdfId]

\* The route's catch (lines 384-386).
DeleteFailed(pdfId) ==
    [op |-> "deletePDF", status |-> 500, success |-> FALSE, id |-> pdfId]

\* The files of the returned documents a deletePDF(pdfId) names.
Named(pdfId) == {d.file : d \in {e \in issued : e.id = pdfId}}

\* DELETE /api/admin/pdfs/:id (lines 376-383) calling deletePDF (lines 216-236)
\* with an id the clock has shown: the first fallback record with that id is
\* removed together with its file, and then either PDF.findByIdAndDelete is
\* awaited or, with the flag false, the call returns.  When the file holds
\* no pdfs array findIndex throws (line 219) and the route's catch answers 500.
DeletePDF ==
    \E pdfId \in 1..now :
        /\ req.pc = "idle"
        /\ IF PdfsMissing
           THEN /\ resp' = DeleteFailed(pdfId)
                /\ UNCHANGED <<disk, local, uploads, req, deleted>>
           ELSE /\ LET pdfIndex == FindIndex(readFallbackDB, pdfId)
                   IN  IF pdfIndex # 0
                       THEN /\ uploads' = uploads \ {readFallbackDB[pdfIndex].file}
                            /\ local' = writeFallbackDB(Splice(readFallbackDB, pdfIndex))
                            /\ disk' = DiskAfterWrite
                       ELSE UNCHANGED <<uploads, local, disk>>
                /\ IF isMongoConnected
                   THEN /\ req' = [pc |-> "findByIdAndDelete", pdfId |-> pdfId]
                        /\ resp' = NoResp
                        /\ deleted' = deleted
                   ELSE /\ req' = Idle
                        /\ resp' = DeleteOk(pdfId)
                        /\ deleted' = deleted \cup Named(pdfId)
        /\ UNCHANGED <<now, uriSet, readyState, isMongoConnected, primary, nextFile,
                       conn, issued, justSynced>>

\* PDF.findByIdAndDelete resolved (lines 238-239).
DeleteMongoOk ==
    /\ req.pc = "findByIdAndDelete"
    /\ readyState = 1
    /\ primary' = {d \in primary : d._id # req.pdfId}
    /\ req' = Idle
    /\ resp' = DeleteOk(req.pdfId)
    /\ deleted' = deleted \cup Named(req.pdfId)
    /\ UNCHANGED <<now, uriSet, disk, readyState, isMongoConnected, local, uploads,
                   nextFile, conn, issued, justSynced>>

\* Mutant: the rejection is not caught and the route answers 500.
DeleteMongoFail_Throws ==
    /\ req.pc = "findByIdAndDelete"
    /\ readyState = 0
    /\ req' = Idle
    /\ resp' = [op |-> "deletePDF", status |-> 500, success |-> FALSE, id |-> req.pdfId]
    /\ deleted' = deleted
    /\ UNCHANGED <<now, uriSet, disk, readyState, isMongoConnected, stores, nextFile,
                   conn, issued, justSynced>>

\* PDF.findByIdAndDelete rejected (lines 240-242): logged.
DeleteMongoFail ==
    /\ req.pc = "findByIdAndDelete"
    /\ readyState = 0
    /\ req' = Idle
    /\ resp' = DeleteOk(req.pdfId)
    /\ deleted' = deleted \cup Named(req.pdfId)
    /\ UNCHANGED <<now, uriSet, disk, readyState, isMongoConnected, stores, nextFile,
                   conn, issued, justSynced>>

\* ------------------------------------------------------ getPDFs, getCounts
\* What GET /api/pdfs and GET /api/pdfs/:type answer (lines 296-313); source
\* tells which store the list was read from, failed whether a MongoDB read
\* was tried and rejected first.
PdfList(type, source, failed, pdfs) ==
    [op |-> "getPDFs", status |-> 200, type |-> type, source |-> source,
     failed |-> failed, pdfs |-> pdfs]

\* The routes' catch (lines 300-302, 310-312): 500.
PdfError(type, failed) ==
    [op |-> "getPDFs", status |-> 500, type |-> type, source |-> "none",
     failed |-> failed, pdfs |-> <<>>]

\* What the fallback branch of getPDFs leads to (lines 156-161): the list, or
\* the TypeError of filter or sort when the file holds no pdfs array.
FallbackList(type, failed) ==
    IF PdfsMissing THEN PdfError(type, failed)
    ELSE PdfList(type, "fallback", failed, FallbackPDFs(type))

\* Mutant: a rejected read leaves the flag as it was.
FlagAfterReadError_Kept == TRUE

\* The flag after a MongoDB read was rejected (lines 151, 173).
FlagAfterReadError == FALSE

\* getPDFs(type) (lines 142-162): every outcome a call made in this state
\* can have, as the flag it leaves and the list it returns.  With the flag
\* true PDF.find answers from MongoDB while the connection is up; when it is
\* rejected the flag goes false and the fallback branch answers, as it does
\* when the flag was false from the start.
getPDFs(type) ==
    IF isMongoConnected /\ readyState = 1
    THEN {[flag |-> TRUE, list |-> PdfList(type, "mongodb", FALSE, pdfs)] :
             pdfs \in FindSorted(primary, type)}
    ELSE IF isMongoConnected
         THEN {[flag |-> FlagAfterReadError,
                list |-> FallbackList(type, TRUE)]}
         ELSE {[flag |-> FALSE,
                list |-> FallbackList(type, FALSE)]}

\* GET /api/pdfs and GET /api/pdfs/:type (lines 296-313).
GetPDFs ==
    \E type \in Types \cup {NoType} :
        \E out \in getPDFs(type) :
            /\ isMongoConnected' = out.flag
            /\ resp' = out.list
            /\ UNCHANGED <<now, uriSet, disk, readyState, stores, nextFile, conn, req,
                           hist, justSynced>>

\* What GET /api/stats/counts answers (lines 316-323).
Counts(source, failed, counts) ==
    [op |-> "getCounts", status |-> 200, source |-> source, failed |-> failed,
     counts |-> counts]

\* What the fallback branch of getCounts leads to (lines 178-181, 316-323):
\* the counts, or 500 for the TypeError of filter when the file holds no
\* pdfs array.
FallbackCountsAnswer(failed) ==
    IF PdfsMissing THEN [op |-> "getCounts", status |-> 500, failed |-> failed]
    ELSE Counts("fallback", failed, FallbackCounts)

\* getCounts with the flag false: the fallback branch (lines 166, 178-181).
GetCountsFallback ==
    /\ req.pc = "idle"
    /\ ~isMongoConnected
    /\ resp' = FallbackCountsAnswer(FALSE)
    /\ UNCHANGED <<now, uriSet, disk, readyState, isMongoConnected, stores, nextFile,
                   conn, req, hist, justSynced>>

\* getCounts with the flag true and the first countDocuments resolved
\* (lines 166-168); the second is awaited (line 169).
CountMaterialOk ==
    /\ req.pc = "idle"
    /\ isMongoConnected
    /\ readyState = 1
    /\ req' = [pc |-> "countImpMaterial",
               materialCount |-> CountDocuments(primary, "material")]
    /\ resp' = NoResp
    /\ UNCHANGED <<now, uriSet, disk, readyState, isMongoConnected, stores, nextFile,
                   conn, hist, justSynced>>

\* The second countDocuments resolved (lines 169-170).
CountImpMaterialOk ==
    /\ req.pc = "countImpMaterial"
    /\ readyState = 1
    /\ LET impMaterialCount == CountDocuments(primary, "imp-material")
       IN  resp' = Counts("mongodb", FALSE,
                          [materialCount |-> req.materialCount,
                           impMaterialCount |-> impMaterialCount,
                           totalCount |-> req.materialCount + impMaterialCount])
    /\ req' = Idle
    /\ UNCHANGED <<now, uriSet, disk, readyState, isMongoConnected, stores, nextFile,
                   conn, hist, justSynced>>

\* Either countDocuments rejected (lines 171-181): the flag goes false and
\* the fallback branch answers.
CountFail ==
    /\ \/ req.pc = "idle" /\ isMongoConnected
       \/ req.pc = "countImpMaterial"
    /\ readyState = 0
    /\ isMongoConnected' = FlagAfterReadError
    /\ resp' = FallbackCountsAnswer(TRUE)
    /\ req' = Idle
    /\ UNCHANGED <<now, uriSet, disk, readyState, stores, nextFile, conn, hist,
                   justSynced>>

\* ------------------------------------------------------------------ status
\* What GET /api/database/status answers (lines 402-413): the flag, and the
\* number of records in the fallback file.
StatusReport(mongodb, pdfs) ==
    [op |-> "status", status |-> 200, mongodb |-> mongodb, pdfs |-> pdfs]

\* The handler threw (fallbackData.pdfs.length, line 405) and Express
\* answered for it.
StatusFailed == [op |-> "status", status |-> 500]

\* GET /api/database/status (lines 400-414).
DatabaseStatus ==
    /\ resp' = IF PdfsMissing THEN StatusFailed
               ELSE StatusReport(isMongoConnected, Len(readFallbackDB))
    /\ UNCHANGED <<now, uriSet, disk, readyState, isMongoConnected, stores, nextFile,
                   conn, req, hist, justSynced>>

\* ---------------------------------------------------------- specification
Next ==
    \/ ConnectionLoss
    \/ ReconnectTick
    \/ ManualReconnect
    \/ \E s \in ConnSlots : ConnectOk(s)
    \/ \E s \in ConnSlots : ConnectFail(s)
    \/ \E s \in ConnSlots : SyncDeleteManyOk(s)
    \/ \E s \in ConnSlots : SyncFailed(s)
    \/ \E s \in ConnSlots : SyncInsertMany(s)
    \/ UploadPDF
    \/ AddSaveOk
    \/ AddSaveFail
    \/ UploadRejected
    \/ DeletePDF
    \/ DeleteMongoOk
    \/ DeleteMongoFail
    \/ GetPDFs
    \/ GetCountsFallback
    \/ CountMaterialOk
    \/ CountImpMaterialOk
    \/ CountFail
    \/ DatabaseStatus

Spec == Init /\ [][Next]_vars

\* ------------------------------------------------- faults of the fallback file
\* The file stops being writable, or its content is damaged: it no longer
\* parses, or parses to something without a pdfs array.  Damage destroys the
\* records it held.
DiskFault ==
    \E d \in DiskStates \ {"ok"} :
        /\ disk = "ok"
        /\ disk' = d
        /\ local' = IF d = "readonly" THEN local ELSE <<>>
        /\ resp' = NoResp
        /\ UNCHANGED <<now, uriSet, readyState, isMongoConnected, primary, uploads,
                       nextFile, conn, req, hist, justSynced>>

\* The file is writable again.
DiskRestored ==
    /\ disk = "readonly"
    /\ disk' = "ok"
    /\ resp' = NoResp
    /\ UNCHANGED <<now, uriSet, readyState, isMongoConnected, stores, nextFile,
                   conn, req, hist, justSynced>>

\* The server run without MONGODB_URI: connectMongoDB returns false at once
\* (lines 106-109), the flag stays false and no MongoDB call is ever made.
FaultInit == Init /\ ~uriSet

\* The steps such a server can take, and the faults of its file.
FaultNext ==
    \/ DiskFault
    \/ DiskRestored
    \/ ManualReconnect
    \/ UploadPDF
    \/ UploadRejected
    \/ DeletePDF
    \/ GetPDFs
    \/ GetCountsFallback
    \/ DatabaseStatus

FaultSpec == FaultInit /\ [][FaultNext]_vars

\* ------------------------------------------------ the server left to itself
\* The driver re-establishes by itself a connection that was once opened
\* (the flag is true only after a connect resolved); the server registers
\* no handler on mongoose.connection, so nothing of the server runs.
DriverReconnect ==
    /\ readyState = 0
    /\ isMongoConnected
    /\ readyState' = 1
    /\ resp' = NoResp
    /\ UNCHANGED <<now, uriSet, disk, isMongoConnected, stores, nextFile, conn,
                   req, hist, justSynced>>

\* The server started with MONGODB_URI.
LiveInit == Init /\ uriSet

\* The steps of the server when no reconnect is asked for and nothing is
\* read or deleted: the timer, the calls of connectMongoDB it starts, the
\* uploads, and the connection coming and going.
LiveNext ==
    \/ ConnectionLoss
    \/ DriverReconnect
    \/ ReconnectTick
    \/ \E s \in ConnSlots : ConnectOk(s)
    \/ \E s \in ConnSlots : ConnectFail(s)
    \/ \E s \in ConnSlots : SyncDeleteManyOk(s)
    \/ \E s \in ConnSlots : SyncFailed(s)
    \/ \E s \in ConnSlots : SyncInsertMany(s)
    \/ UploadPDF
    \/ AddSaveOk
    \/ AddSaveFail

\* setInterval keeps calling its callback every 30 s (lines 437-442).
TimerFires == WF_vars(ReconnectTick)

\* MongoDB is available in the end: of the connects tried again and again,
\* one resolves (lines 112-119).
ConnectSucceeds == \A s \in ConnSlots : SF_vars(ConnectOk(s))

\* Every awaited MongoDB call settles, resolved or rejected (lines 62, 67,
\* 205): the event loop runs the continuation.
CallsSettle ==
    /\ \A s \in ConnSlots :
          WF_vars(SyncDeleteManyOk(s) \/ SyncFailed(s) \/ SyncInsertMany(s))
    /\ \A s \in ConnSlots : WF_vars(ConnectOk(s) \/ ConnectFail(s))
    /\ WF_vars(AddSaveOk \/ AddSaveFail)

LiveSpec ==
    LiveInit /\ [][LiveNext]_vars /\ TimerFires /\ ConnectSucceeds /\ CallsSettle

\* ------------------------------------------------------------ vocabulary
\* The list shows the document stored as file.
Shows(pdfs, file) == \E i \in 1..Len(pdfs) : pdfs[i].file = file

InLocal(file) == Shows(local, file)

InPrimary(file) == \E d \in primary : d.file = file

\* The last step was addPDF returning without a mirroring attempt.
AddedOffline == resp.op = "addPDF" /\ resp.status = 200 /\ resp.mirror = "none"

\* The last step was addPDF's fallback write with the mirroring save ahead.
AppendedBeforeMirror == resp.op = "writeFallbackDB"

\* ------------------------------------------------------------------ claims
\* C1: a document added while the flag is false is in the list of every
\* getPDFs call made right after addPDF returned, unfiltered or filtered by
\* the document's own type, with the id addPDF gave it.
C1_OfflineAddIsListed ==
    AddedOffline =>
        \A type \in {NoType, resp.pdf.type} :
            \A out \in getPDFs(type) :
                \E i \in 1..Len(out.list.pdfs) :
                    /\ out.list.pdfs[i].file = resp.pdf.file
                    /\ out.list.pdfs[i].id = resp.pdf.id

\* C1 witness: the second of two documents added in a row with the flag false
\* has just been returned.
C1_Witness ==
    /\ AddedOffline
    /\ uriSet
    /\ ~isMongoConnected
    /\ Len(local) = 2
    /\ Cardinality(issued) = 2
    /\ primary = {}

\* No other returned document was given the id of e (two calls of addPDF in
\* the same millisecond share one).
OwnId(e) == \A o \in issued : o.id = e.id => o = e

\* C2 as claimed: every document addPDF returned, and that no deletePDF has
\* named or is naming, is held by the fallback file or by MongoDB.  Stated
\* for the documents whose id is theirs alone.
C2_NoDataLoss ==
    \A e \in issued :
        \/ ~OwnId(e)
        \/ e.file \in deleted
        \/ req.pc = "findByIdAndDelete" /\ req.pdfId = e.id
        \/ InLocal(e.file)
        \/ InPrimary(e.file)

\* C3 as claimed: no list getPDFs returns shows a document that a deletePDF,
\* returned before the call, had named.  Stated for the documents whose id
\* is theirs alone.
C3_DeletedStaysDeleted ==
    resp.op = "getPDFs" =>
        \A e \in issued : OwnId(e) /\ e.file \in deleted => ~Shows(resp.pdfs, e.file)

ExactlyThese(pdfs, docs) ==
    /\ Len(pdfs) = Cardinality(docs)
    /\ {pdfs[i] : i \in 1..Len(pdfs)} = docs

\* The fallback records of a type (all of them for NoType).
LocalOfType(type) ==
    {local[j] : j \in {k \in 1..Len(local) : type = NoType \/ local[k].type = type}}

\* C5: a list getPDFs returns holds exactly the MongoDB documents that match
\* the filter if the flag is true when it returns, and exactly the matching
\* fallback records if the flag is false.
C5_ReadsExactlyOneStore ==
    resp.op = "getPDFs" =>
        /\ isMongoConnected <=> resp.source = "mongodb"
        /\ resp.source = "mongodb" =>
               ExactlyThese(resp.pdfs,
                            {d \in primary : resp.type = NoType \/ d.type = resp.type})
        /\ resp.source = "fallback" => ExactlyThese(resp.pdfs, LocalOfType(resp.type))

\* C5 witness: a filtered list read from MongoDB, which holds a document of
\* the other type as well and differs from the fallback file.
C5_Witness ==
    /\ resp.op = "getPDFs"
    /\ resp.source = "mongodb"
    /\ resp.type = "material"
    /\ Len(resp.pdfs) = 1
    /\ Cardinality(primary) = 2
    /\ local = <<>>

\* C6: a connectMongoDB run that reads the fallback file after a
\* reconciliation has pruned it, with no addPDF in between, ends without
\* touching MongoDB or the fallback file.
C6_SecondRunChangesNothing ==
    [][\A s \in ConnSlots :
          justSynced /\ conn[s].pc = "connect" /\ conn'[s].pc # "connect"
              /\ isMongoConnected'
          => primary' = primary /\ local' = local /\ conn'[s].pc = "idle"]_vars

\* C6 witness: a run has just ended without reconciling, after an earlier
\* one had pruned, and MongoDB holds what that one wrote.
C6_Witness ==
    /\ resp = ConnectResult(TRUE, "none")
    /\ justSynced
    /\ primary # {}

\* C7: a document MongoDB holds has there, as _id, the id addPDF gave it, the
\* one its fallback record carries.
C7_SameIdInBothStores ==
    \A d \in primary :
        /\ \A e \in issued : e.file = d.file => d._id = e.id
        /\ \A i \in 1..Len(local) : local[i].file = d.file => d._id = local[i].id
        /\ req.pc = "save" /\ req.newPdf.file = d.file => d._id = req.newPdf.id

\* C7 witness: a reconciliation has just written to MongoDB two documents that
\* were added under distinct ids.
C7_Witness ==
    /\ resp = ConnectResult(TRUE, "done")
    /\ req.pc = "idle"
    /\ Cardinality(primary) = 2
    /\ \A e \in issued : OwnId(e) /\ \E d \in primary : d.file = e.file /\ d._id = e.id

\* C8: when addPDF starts to await the mirroring save the flag is true and
\* the fallback file already holds the record, which MongoDB does not; when
\* it returns without mirroring the flag is false and MongoDB has not been
\* written.
C8_LocalFirstThenMirror ==
    /\ AppendedBeforeMirror =>
           /\ isMongoConnected
           /\ req.pc = "save" /\ req.newPdf = resp.pdf
           /\ InLocal(resp.pdf.file)
           /\ ~InPrimary(resp.pdf.file)
    /\ AddedOffline =>
           /\ ~isMongoConnected
           /\ req.pc = "idle"
           /\ InLocal(resp.pdf.file)
           /\ ~InPrimary(resp.pdf.file)

\* C8 witness: the mirroring save of a second document is about to be awaited.
C8_Witness ==
    /\ AppendedBeforeMirror
    /\ Len(local) = 2
    /\ resp.pdf.file = 2

C10_ReadFailureFallsBack ==
    resp.op \in {"getPDFs", "getCounts"} /\ resp.failed =>
        /\ ~isMongoConnected
        /\ resp.status = 200
        /\ resp.source = "fallback"
        /\ resp.op = "getPDFs" => ExactlyThese(resp.pdfs, LocalOfType(resp.type))
        /\ resp.op = "getCounts" =>
               /\ resp.counts.materialCount = Cardinality(LocalOfType("material"))
               /\ resp.counts.impMaterialCount = Cardinality(LocalOfType("imp-material"))
               /\ resp.counts.totalCount = Len(local)

\* C10 witness: getCounts has just answered from a fallback file that holds
\* documents, its second count having been rejected.
C10_Witness ==
    /\ resp.op = "getCounts"
    /\ resp.failed
    /\ resp.counts.totalCount >= 1
    /\ primary # {}


\* C11: when PDF.findByIdAndDelete is rejected, deletePDF returns normally and
\* the route answers success; the fallback file and the uploads are left as
\* the local deletion made them, and no record of the named id is in the file.
C11_FailedMongoDeleteKeepsLocalDelete ==
    [][req.pc = "findByIdAndDelete" /\ req'.pc = "idle" /\ readyState = 0
       => /\ resp' = DeleteOk(req.pdfId)
          /\ local' = local /\ uploads' = uploads
          /\ \A e \in issued :
                 e.id = req.pdfId /\ OwnId(e) => ~Shows(local', e.file)]_vars

\* C11 witness: a delete has been answered after its MongoDB deletion was
\* rejected; the record is gone from the fallback file, its payload is
\* released and MongoDB still holds the document.
C11_Witness ==
    /\ resp.op = "deletePDF" /\ resp.status = 200
    /\ isMongoConnected /\ readyState = 0
    /\ \E e \in issued :
           /\ e.id = resp.id /\ OwnId(e)
           /\ ~InLocal(e.file) /\ e.file \notin uploads /\ InPrimary(e.file)


\* C12 as claimed: a delete request naming an id that no fallback record
\* carries is answered 404 and changes neither store.  Stated for the
\* requests deletePDF answers without awaiting MongoDB.
C12_AbsentIdIs404 ==
    [][/\ req.pc = "idle" /\ resp'.op = "deletePDF"
       /\ FindIndex(local, resp'.id) = 0
       => /\ resp'.status = 404
          /\ local' = local /\ primary' = primary]_vars


\* C13 as claimed: no two documents addPDF has returned carry the same id,
\* no two fallback records carry the same id and no two MongoDB documents
\* the same _id.
C13_IdsAreUnique ==
    /\ \A e, o \in issued : e.id = o.id => e = o
    /\ \A i, j \in 1..Len(local) : local[i].id = local[j].id => i = j
    /\ \A d, o \in primary : d._id = o._id => d = o


\* The fallback records that MongoDB does not hold: the pending ones.
Pending == {i \in 1..Len(local) : ~\E d \in primary : d._id = local[i].id}

\* C14 as claimed: the count of fallback records the status endpoint reports
\* leaves out every record that MongoDB holds, so it is the number of
\* pending records.
C14_SyncedIsNotPending ==
    resp.op = "status" => resp.pdfs = Cardinality(Pending)


\* C15 as claimed: once a delete naming a document's id has been answered,
\* the document's payload file is gone from the uploads directory, wherever
\* the record was held.  Stated for the documents whose id is theirs alone.
C15_PayloadReleased ==
    resp.op = "deletePDF" /\ resp.status = 200 =>
        \A e \in issued : e.id = resp.id /\ OwnId(e) => e.file \notin uploads


\* Nothing is awaiting MongoDB.
Quiet == req.pc = "idle" /\ \A s \in ConnSlots : conn[s].pc = "idle"

\* C16 as claimed: when a connectMongoDB run has succeeded with nothing to
\* reconcile and nothing else is in flight, MongoDB holds no document whose
\* delete has been answered.  Stated for the documents whose id is theirs
\* alone, with no reconciliation run since the last addPDF.
C16_NoResurrection ==
    resp = ConnectResult(TRUE, "none") /\ Quiet /\ ~justSynced =>
        \A e \in issued : OwnId(e) /\ e.file \in deleted => ~InPrimary(e.file)


\* C17 as claimed: when a connectMongoDB run has succeeded, the connection is
\* up and nothing else is in flight, the fallback file holds no record
\* (pendingCount is 0) and MongoDB holds exactly one document for each
\* document addPDF returned that no delete has named.
C17_ReconnectLeavesNothingPending ==
    resp.op = "connectMongoDB" /\ resp.result /\ readyState = 1 /\ Quiet =>
        /\ Len(local) = 0
        /\ \A e \in issued :
               e.file \notin deleted =>
                   Cardinality({d \in primary : d.file = e.file}) = 1


\* C18 as claimed: addPDF reports success only for a record that the
\* fallback file or MongoDB holds when it returns; when the fallback write
\* failed and MongoDB did not take the record, the request fails.
C18_UnstoredAddIsAnError ==
    resp.op = "addPDF" /\ resp.status = 200 =>
        InLocal(resp.pdf.file) \/ InPrimary(resp.pdf.file)

\* The operations of the data-access layer that read the fallback file.
LocalReaders == {"getPDFs", "getCounts", "addPDF", "deletePDF", "status"}

\* C19 as claimed: while the fallback file is unreadable or damaged, no
\* operation that reads it fails, and lists and counts are those of an
\* empty store.
C19_DamagedFileReadsAsEmpty ==
    disk \in {"unparseable", "misshapen"} /\ resp.op \in LocalReaders =>
        /\ resp.status # 500
        /\ resp.op = "getPDFs" => resp.pdfs = <<>>
        /\ resp.op = "getCounts" => resp.counts.totalCount = 0
        /\ resp.op = "status" => resp.pdfs = 0


\* C20: the step that answers an upload request lacking displayName, type
\* or icon answers 400 without success, changes neither the fallback file
\* nor MongoDB, starts no addPDF, and leaves the uploads directory without
\* the file the request brought.
C20_MissingFieldsRejected ==
    [][resp'.op = "addPDF" /\ resp'.status \notin {200, 500}
          /\ resp'.error = "Missing required fields"
       => /\ resp'.status = 400 /\ ~resp'.success
          /\ local' = local /\ primary' = primary /\ req' = req
          /\ uploads' = uploads /\ nextFile \notin uploads']_vars

\* C20 witness: an upload without its fields has just been rejected by a
\* server that holds one document, whose payload is the only file kept.
C20_Witness ==
    /\ resp = BadUpload("Missing required fields")
    /\ Len(local) = 1
    /\ uploads = {1}
    /\ nextFile = 2


\* A reconciliation is between its snapshot and its last step.
Syncing(c) == c.pc \in {"deleteMany", "insertMany"}

\* C21 as claimed: the step that completes a successful reconciliation takes
\* out of the fallback file the records of its snapshot only; a record
\* appended since the snapshot was read is still in the file afterwards.
C21_PruneKeepsLaterAppends ==
    [][\A s \in ConnSlots :
          Syncing(conn[s]) /\ conn'[s].pc = "idle"
              /\ resp' = ConnectResult(TRUE, "done")
          => \A i \in 1..Len(local) :
                 ~Shows(conn[s].fallbackData, local[i].file)
                     => Shows(local', local[i].file)]_vars


\* C22: the step that ends a reconciliation in failure, deleteMany or
\* insertMany having been rejected or insertMany having stopped part-way,
\* leaves the fallback file as it is.
C22_FailedSyncKeepsLocal ==
    [][\A s \in ConnSlots :
          Syncing(conn[s]) /\ conn'[s].pc = "idle"
              /\ resp' = ConnectResult(TRUE, "failed")
          => local' = local /\ disk' = disk]_vars

\* C22 witness: a reconciliation has just failed with the connection down
\* after its deleteMany went through; the fallback file holds two records
\* and MongoDB none.
C22_Witness ==
    /\ resp = ConnectResult(TRUE, "failed")
    /\ readyState = 0
    /\ Len(local) = 2
    /\ primary = {}
    /\ \A s \in ConnSlots : conn[s].pc = "idle"


\* C23 as claimed: a reconciliation starts only on a transition of the flag
\* from false to true.
C23_SyncOnlyOnEdge ==
    [][\A s \in ConnSlots :
          conn[s].pc = "connect" /\ conn'[s].pc = "deleteMany"
              => ~isMongoConnected]_vars

\* C23 amended: the timer calls connectMongoDB only while the flag is false
\* and a URI is configured; a reconciliation is started only by a call of
\* connectMongoDB whose connect succeeded, at most once in that call, on
\* the fallback file as read then and only if it holds documents, whatever
\* the flag was before the call.
C23_TickIsGuardedSyncOncePerConnect ==
    [][/\ resp'.op = "reconnectTick" => ~isMongoConnected /\ uriSet
       /\ \A s \in ConnSlots :
             conn[s].pc # "deleteMany" /\ conn'[s].pc = "deleteMany"
                 => /\ conn[s].pc = "connect"
                    /\ isMongoConnected'
                    /\ conn'[s].fallbackData = local
                    /\ Len(local) > 0]_vars

\* C23 witness: the timer has just called connectMongoDB with the flag
\* false while an earlier call is still reconciling a fallback file that
\* holds a document.
C23_Witness ==
    /\ resp = TickLog
    /\ ~isMongoConnected
    /\ \E s, t \in ConnSlots :
          conn[s].pc = "connect" /\ conn[t].pc = "insertMany"


\* C24 as claimed: the step in which the mirroring save of addPDF or the
\* findByIdAndDelete of deletePDF is rejected, the connection being down,
\* ends with the flag false.
C24_FailedWriteClearsFlag ==
    [][req.pc \in {"save", "findByIdAndDelete"} /\ req'.pc = "idle"
           /\ readyState = 0
       => ~isMongoConnected']_vars


\* C25 as claimed: a record that is in the fallback file and not in MongoDB
\* while the connection is up gets into MongoDB, unless the connection
\* drops first or the record leaves the fallback file.
C25_PendingIsEventuallyMirrored ==
    \A f \in Files :
        (InLocal(f) /\ ~InPrimary(f) /\ readyState = 1)
            ~> (InPrimary(f) \/ ~InLocal(f) \/ readyState = 0)

\* C29: with a URI configured, whenever the flag is false it becomes true
\* again, by the timer's calls of connectMongoDB alone.
C29_FlagEventuallyTrue ==
    (~isMongoConnected /\ uriSet) ~> isMongoConnected

\* C29 witness: the flag is false after a failed connect, no call of
\* connectMongoDB is left in flight but the one the timer has just started.
C29_Witness ==
    /\ resp = TickLog
    /\ ~isMongoConnected
    /\ readyState = 0
    /\ conn[1].pc = "connect"
    /\ conn[2].pc = "idle"
    /\ primary # {}


\* C26 as claimed: when a reconciliation writes the fallback file back
\* (line 71), the file is still what the reconciliation read (line 123):
\* no addPDF, deletePDF or other reconciliation has written it in between.
C26_NoWriteInsideSyncWindow ==
    [][\A s \in ConnSlots :
          Syncing(conn[s]) /\ conn'[s].pc = "idle"
              /\ resp' = ConnectResult(TRUE, "done")
          => local = conn[s].fallbackData]_vars


\* C27: every call of connectMongoDB ends by returning a value; when its
\* connect was rejected the value is false and the flag is false afterwards,
\* and when the reconciliation started inside it fails the call still
\* returns (true), the failure having been caught.
C27_ConnectFailureIsReturned ==
    [][\A s \in ConnSlots :
          conn[s].pc # "idle" /\ conn'[s].pc = "idle"
          => /\ resp'.op = "connectMongoDB"
             /\ resp'.result \in BOOLEAN
             /\ conn[s].pc = "connect" /\ readyState' = 0
                    => ~resp'.result /\ ~isMongoConnected'
             /\ Syncing(conn[s]) => resp'.result]_vars

\* C27 witness: a connect asked for while the flag was true has just been
\* rejected, the connection having dropped; MongoDB holds a document.
C27_Witness ==
    /\ resp = ConnectResult(FALSE, "none")
    /\ uriSet
    /\ ~isMongoConnected
    /\ readyState = 0
    /\ primary # {}
    /\ \A s \in ConnSlots : conn[s].pc = "idle"


\* C28 as claimed: when the insertMany of a reconciliation is answered with
\* the connection up and MongoDB already holds one of the records being
\* written, under its id, the reconciliation succeeds all the same and
\* MongoDB ends with one document for each id of the snapshot.
C28_SyncUpsertsPresentIds ==
    [][\A s \in ConnSlots :
          /\ conn[s].pc = "insertMany" /\ conn'[s].pc = "idle"
          /\ readyState = 1
          /\ \E d \in primary : \E i \in 1..Len(conn[s].fallbackData) :
                 /\ conn[s].fallbackData[i].id = d._id
                 /\ conn[s].fallbackData[i].file = d.file
          => /\ resp' = ConnectResult(TRUE, "done")
             /\ \A i \in 1..Len(conn[s].fallbackData) :
                   Cardinality({d \in primary' :
                                   d._id = conn[s].fallbackData[i].id}) = 1]_vars


\* C30 as claimed: when a reconciliation ends in failure, every document
\* its deleteMany took out of MongoDB is in MongoDB again.
C30_FailedSyncRestoresPrimary ==
    [][\A s \in ConnSlots :
          conn[s].pc = "insertMany" /\ conn'[s].pc = "idle"
              /\ resp' = ConnectResult(TRUE, "failed")
          => conn[s].removed \subseteq primary']_vars


\* C31 as claimed: when a reconciliation finishes, a document of its
\* snapshot whose delete was answered while the reconciliation was in flight
\* is in neither store.  Stated for the documents whose id is theirs alone.
C31_DeleteDuringSyncSticks ==
    [][\A s \in ConnSlots :
          Syncing(conn[s]) /\ conn'[s].pc = "idle"
          => \A e \in issued :
                 OwnId(e) /\ e.file \in deleted
                     /\ Shows(conn[s].fallbackData, e.file)
                 => /\ ~Shows(local', e.file)
                    /\ \A d \in primary' : d.file # e.file]_vars


\* C32 as claimed: at most one reconciliation is in flight at any time.
C32_OneSyncAtATime ==
    Cardinality({s \in ConnSlots : Syncing(conn[s])}) <= 1


\* C33 as claimed: a list getPDFs returns from the fallback file, MongoDB
\* not being reachable, shows every document MongoDB holds that addPDF
\* returned and no delete has named, the reconciled ones included.  Stated
\* for the unfiltered list, with no request in flight.
C33_FallbackListsReconciled ==
    resp.op = "getPDFs" /\ resp.status = 200 /\ resp.source = "fallback"
        /\ resp.type = NoType /\ req.pc = "idle"
    => \A e \in issued :
           OwnId(e) /\ e.file \notin deleted /\ InPrimary(e.file)
               => Shows(resp.pdfs, e.file)


\* ------------------------------------------------- the in-database variant
\* The server that keeps the PDFs in MongoDB only (part_000).  Its PDF
\* collection is primary, its connection readyState, the requests it is
\* serving are the slots of conn and nextFile numbers the ObjectIds it
\* mints; it has no fallback file, no flag and no timer, so the other
\* variables stay as Init leaves them.
unused == <<now, uriSet, isMongoConnected, local, uploads, disk, req, issued,
            deleted, justSynced>>

\* The path a new document is first saved with (line 236).
PlaceholderPath == <<"/api/pdf/">>

\* `/api/pdf/${savedPdf._id}` (line 247).
PdfPath(id) == <<"/api/pdf/", id>>

\* The answers of POST /api/admin/pdfs (lines 219, 225-228, 252-266,
\* 270-273) and of DELETE /api/admin/pdfs/:id (lines 283, 289, 291).
UploadAnswer(status) ==
    [op |-> "upload", status |-> status, success |-> status = 200]

DeleteAnswer(status, id) ==
    [op |-> "delete", status |-> status, success |-> status = 200, id |-> id]

\* The server is listening: MONGODB_URI is set (lines 17-22) and
\* mongoose.connect has resolved (lines 27-35), the collection being empty.
DbInit ==
    /\ now = 0
    /\ uriSet = TRUE
    /\ readyState = 1
    /\ isMongoConnected = FALSE
    /\ local = <<>>
    /\ primary = {}
    /\ uploads = {}
    /\ disk = "ok"
    /\ nextFile = 1
    /\ conn = [s \in ConnSlots |-> Idle]
    /\ req = Idle
    /\ resp = NoResp
    /\ issued = {}
    /\ deleted = {}
    /\ justSynced = FALSE

\* The driver re-establishes the connection.
DbReconnected ==
    /\ readyState = 0
    /\ readyState' = 1
    /\ resp' = NoResp
    /\ UNCHANGED <<primary, nextFile, conn, unused>>

\* POST /api/admin/pdfs without a file or without a required field
\* (lines 218-229): 400, nothing is stored.
PostPdfRejected ==
    /\ \E s \in ConnSlots : conn[s].pc = "idle"
    /\ resp' = UploadAnswer(400)
    /\ UNCHANGED <<readyState, primary, nextFile, conn, unused>>

\* POST /api/admin/pdfs with a file and the required fields (lines 214-244):
\* the document is built with a fresh _id and the placeholder path, and
\* newPdf.save() is awaited.
PostPdf(s) ==
    /\ conn[s].pc = "idle"
    /\ nextFile <= MaxAdds
    /\ conn' = [conn EXCEPT ![s] =
                    [pc |-> "save",
                     newPdf |-> [_id |-> nextFile, path |-> PlaceholderPath]]]
    /\ nextFile' = nextFile + 1
    /\ resp' = NoResp
    /\ UNCHANGED <<readyState, primary, unused>>

\* newPdf.save() resolved (lines 244-248): the document is in the
\* collection with the placeholder path; the path is set on the document
\* in memory and savedPdf.save() is awaited.
FirstSaveOk(s) ==
    /\ conn[s].pc = "save"
    /\ readyState = 1
    /\ primary' = primary \cup {conn[s].newPdf}
    /\ conn' = [conn EXCEPT ![s] =
                    [pc |-> "savePath",
                     newPdf |-> [conn[s].newPdf EXCEPT
                                    !.path = PdfPath(conn[s].newPdf._id)]]]
    /\ resp' = NoResp
    /\ UNCHANGED <<readyState, nextFile, unused>>

\* newPdf.save() rejected (lines 268-274): 500.
FirstSaveFail(s) ==
    /\ conn[s].pc = "save"
    /\ readyState = 0
    /\ conn' = [conn EXCEPT ![s] = Idle]
    /\ resp' = UploadAnswer(500)
    /\ UNCHANGED <<readyState, primary, nextFile, unused>>

\* The document savedPdf.save() updates: the one stored under its _id.
Stored(id) == {d \in primary : d._id = id}

\* savedPdf.save() resolved (lines 248-266): the stored document has the
\* path of its id, 200.
SecondSaveOk(s) ==
    /\ conn[s].pc = "savePath"
    /\ readyState = 1
    /\ Stored(conn[s].newPdf._id) # {}
    /\ primary' = (primary \ Stored(conn[s].newPdf._id)) \cup {conn[s].newPdf}
    /\ conn' = [conn EXCEPT ![s] = Idle]
    /\ resp' = UploadAnswer(200)
    /\ UNCHANGED <<readyState, nextFile, unused>>

\* savedPdf.save() rejected, the connection being down or the document
\* having been deleted in the meantime (lines 268-274): 500; the
\* collection is left as it is.
SecondSaveFail(s) ==
    /\ conn[s].pc = "savePath"
    /\ readyState = 0 \/ Stored(conn[s].newPdf._id) = {}
    /\ conn' = [conn EXCEPT ![s] = Idle]
    /\ resp' = UploadAnswer(500)
    /\ UNCHANGED <<readyState, primary, nextFile, unused>>

\* DELETE /api/admin/pdfs/:id (lines 278-280): PDF.findById is awaited.
DeleteFind(s) ==
    \E id \in Files :
        /\ conn[s].pc = "idle"
        /\ conn' = [conn EXCEPT ![s] = [pc |-> "findById", id |-> id]]
        /\ resp' = NoResp
        /\ UNCHANGED <<readyState, primary, nextFile, unused>>

\* PDF.findById answered (lines 280-286): rejected, 500; no document, 404;
\* otherwise PDF.findByIdAndDelete is awaited.
DeleteFound(s) ==
    /\ conn[s].pc = "findById"
    /\ IF readyState = 0
       THEN /\ conn' = [conn EXCEPT ![s] = Idle]
            /\ resp' = DeleteAnswer(500, conn[s].id)
       ELSE IF Stored(conn[s].id) = {}
            THEN /\ conn' = [conn EXCEPT ![s] = Idle]
                 /\ resp' = DeleteAnswer(404, conn[s].id)
            ELSE /\ conn' = [conn EXCEPT ![s].pc = "findByIdAndDelete"]
                 /\ resp' = NoResp
    /\ UNCHANGED <<readyState, primary, nextFile, unused>>

\* PDF.findByIdAndDelete answered (lines 286-292): rejected, 500;
\* otherwise the document, if still there, is gone, 200.
DeleteDone(s) ==
    /\ conn[s].pc = "findByIdAndDelete"
    /\ IF readyState = 0
       THEN /\ primary' = primary
            /\ resp' = DeleteAnswer(500, conn[s].id)
       ELSE /\ primary' = primary \ Stored(conn[s].id)
            /\ resp' = DeleteAnswer(200, conn[s].id)
    /\ conn' = [conn EXCEPT ![s] = Idle]
    /\ UNCHANGED <<readyState, nextFile, unused>>

DbNext ==
    \/ ConnectionLoss
    \/ DbReconnected
    \/ PostPdfRejected
    \/ \E s \in ConnSlots : PostPdf(s)
    \/ \E s \in ConnSlots : FirstSaveOk(s)
    \/ \E s \in ConnSlots : FirstSaveFail(s)
    \/ \E s \in ConnSlots : SecondSaveOk(s)
    \/ \E s \in ConnSlots : SecondSaveFail(s)
    \/ \E s \in ConnSlots : DeleteFind(s)
    \/ \E s \in ConnSlots : DeleteFound(s)
    \/ \E s \in ConnSlots : DeleteDone(s)

DbSpec == DbInit /\ [][DbNext]_vars

\* C34 as claimed: when an upload request of the in-database variant has
\* been answered, an error answer leaves no document of that request in
\* the collection, and a document of that request that is in the
\* collection has the path of its own id, never the placeholder.
C34_ErrorLeavesNoRecord ==
    [][\A s \in ConnSlots :
          conn[s].pc \in {"save", "savePath"} /\ conn'[s].pc = "idle"
          => /\ resp'.status # 200
                    => \A d \in primary' : d._id # conn[s].newPdf._id
             /\ \A d \in primary' :
                    d._id = conn[s].newPdf._id => d.path = PdfPath(d._id)]_vars


\* ------------------------------------------------------- the visit counter
\* The visit routes of server.js (lines 297-330, and the same again at
\* 686-719).  The Visit collection is primary, the requests being served are
\* the slots of conn, now numbers the requests received and issued keeps
\* the increment requests that were answered with a count.
others == <<uriSet, isMongoConnected, local, uploads, disk, nextFile, req, deleted,
          justSynced>>

\* What the visit routes answer (lines 306, 309, 325, 328).
VisitAnswer(route, status, count) ==
    [op |-> route, status |-> status, count |-> count]

\* The server is listening; the collection is empty or holds the record
\* of an earlier run, counted back to 0.
VisitInit ==
    /\ now = 0
    /\ uriSet = TRUE
    /\ readyState = 1
    /\ isMongoConnected = FALSE
    /\ local = <<>>
    /\ primary \in {{}, {[_id |-> 0, count |-> 0]}}
    /\ uploads = {}
    /\ disk = "ok"
    /\ nextFile = 1
    /\ conn = [s \in ConnSlots |-> Idle]
    /\ req = Idle
    /\ resp = NoResp
    /\ issued = {}
    /\ deleted = {}
    /\ justSynced = FALSE

VisitRoutes == {"GET /api/visits", "POST /api/visits/increment"}

\* A request of either route arrives (lines 297-299, 313-315):
\* Visit.findOne() is awaited.
VisitRequest(s) ==
    \E route \in VisitRoutes :
        /\ conn[s].pc = "idle"
        /\ now < MaxClock
        /\ now' = now + 1
        /\ conn' = [conn EXCEPT ![s] =
                        [pc |-> "findOne", route |-> route, n |-> now + 1]]
        /\ resp' = NoResp
        /\ UNCHANGED <<readyState, primary, issued, others>>

\* The document a request goes on with after findOne (lines 301-303,
\* 317-322): a new one, count 0 for the GET and 1 for the increment, or
\* the one found, its count raised by one for the increment.
VisitData(route, n, found) ==
    IF found = {}
    THEN [_id |-> n, count |-> IF route = "GET /api/visits" THEN 0 ELSE 1]
    ELSE LET d == CHOOSE d \in found : TRUE
         IN  IF route = "GET /api/visits" THEN d
             ELSE [d EXCEPT !.count = d.count + 1]

\* Visit.findOne() resolved (lines 299-306, 315-324) with no document or
\* with one of the documents of the collection: the GET answers the count
\* of a document it found, otherwise visitData.save() is awaited.
FindOneOk(s) ==
    \E found \in {{d} : d \in primary} \cup {{}} :
        /\ conn[s].pc = "findOne"
        /\ readyState = 1
        /\ found = {} <=> primary = {}
        /\ LET visitData == VisitData(conn[s].route, conn[s].n, found)
           IN  IF conn[s].route = "GET /api/visits" /\ found # {}
               THEN /\ conn' = [conn EXCEPT ![s] = Idle]
                    /\ resp' = VisitAnswer(conn[s].route, 200, visitData.count)
               ELSE /\ conn' = [conn EXCEPT ![s] =
                                   [pc |-> "save", route |-> conn[s].route,
                                    n |-> conn[s].n, visitData |-> visitData]]
                    /\ resp' = NoResp
        /\ UNCHANGED <<now, readyState, primary, issued, others>>

\* visitData.save() resolved (lines 303-306, 324-325): the document is
\* inserted, or the stored one is overwritten with the count held in
\* memory; the count is answered.
VisitSaveOk(s) ==
    /\ conn[s].pc = "save"
    /\ readyState = 1
    /\ primary' = (primary \ Stored(conn[s].visitData._id))
                       \cup {conn[s].visitData}
    /\ conn' = [conn EXCEPT ![s] = Idle]
    /\ resp' = VisitAnswer(conn[s].route, 200, conn[s].visitData.count)
    /\ issued' = IF conn[s].route = "POST /api/visits/increment"
                 THEN issued \cup {conn[s].n} ELSE issued
    /\ UNCHANGED <<now, readyState, others>>

\* findOne or save rejected (lines 307-310, 326-329): 500.
VisitFail(s) ==
    /\ conn[s].pc \in {"findOne", "save"}
    /\ readyState = 0
    /\ conn' = [conn EXCEPT ![s] = Idle]
    /\ resp' = VisitAnswer(conn[s].route, 500, 0)
    /\ UNCHANGED <<now, readyState, primary, issued, others>>

\* The connection of this server comes back.
VisitReconnected ==
    /\ readyState = 0
    /\ readyState' = 1
    /\ resp' = NoResp
    /\ UNCHANGED <<now, primary, conn, issued, others>>

VisitNext ==
    \/ ConnectionLoss
    \/ VisitReconnected
    \/ \E s \in ConnSlots : VisitRequest(s)
    \/ \E s \in ConnSlots : FindOneOk(s)
    \/ \E s \in ConnSlots : VisitSaveOk(s)
    \/ \E s \in ConnSlots : VisitFail(s)

VisitSpec == VisitInit /\ [][VisitNext]_vars

\* C35 as claimed: when every request received was an increment and each
\* has been answered with a count, the collection holds one visit record
\* and its count is the number of those requests.
C35_NoIncrementLost ==
    (\A s \in ConnSlots : conn[s].pc = "idle") /\ Cardinality(issued) = now
    => /\ Cardinality(primary) <= 1
       /\ \A d \in primary : d.count = Cardinality(issued)
       /\ issued # {} => primary # {}

====
